---- MODULE Spec2Model ----
(***************************************************************************)
(* Xapian::DLHWeight (xapian-core/weight/dlhweight.cc): the DLH weighting  *)
(* scheme of the divergence-from-randomness framework, as a state machine  *)
(* over one scheme instance `w`, the instance `w2` that clone() or         *)
(* unserialise() last handed out, and the record `call` of the last call.  *)
(* Spec runs w alone over every term statistics of the model;              *)
(* SpecRoundTrip adds clone(), name(), serialise() and unserialise() and   *)
(* the copy w2, over the statistics of one term.                           *)
(*                                                                         *)
(* A C++ double is modelled as a tagged value: a finite number in binary   *)
(* fixed point with FracBits fractional bits, an infinity with its sign,   *)
(* or NaN.  The arithmetic follows IEEE 754 on the special values          *)
(* (0 * inf, inf - inf, log2 of a negative number are NaN; x / 0 is an     *)
(* infinity; every comparison with NaN is false).                          *)
(***************************************************************************)
EXTENDS Integers, Sequences, FiniteSets, TLC

\* ------------------------------------------------------------- bounds

\* Fractional bits of the fixed-point stand-in for a finite double.
FracBits == 12
\* Largest wdf, and largest wdf upper bound of the term statistics.
MaxWdf == 2
\* Largest document length, and largest document-length upper bound.
MaxLen == 3
\* Longest string handed to unserialise().
MaxStrLen == 1

Scale == 2 ^ FracBits

\* ------------------------------------------------------------ doubles

Fin(v) == [k |-> "fin", v |-> v]
NaN == [k |-> "nan", v |-> 0]
PInf == [k |-> "inf", v |-> 1]
NInf == [k |-> "inf", v |-> -1]
Inf(s) == IF s < 0 THEN NInf ELSE PInf

\* double(n) of an unsigned integer n.
FromInt(n) == Fin(n * Scale)
Zero == Fin(0)
One == FromInt(1)
Half == Fin(Scale \div 2)

Abs(n) == IF n < 0 THEN -n ELSE n
Sgn(n) == IF n < 0 THEN -1 ELSE IF n > 0 THEN 1 ELSE 0
\* The sign of a double that is not NaN: -1, 0 or 1.
Sign(a) == Sgn(a.v)

IsNaN(a) == a.k = "nan"
IsFin(a) == a.k = "fin"

\* |a| * |b| / Scale, truncated, without leaving 32 bits for moderate values.
MulFix(a, b) == (a \div Scale) * b + ((a % Scale) * b) \div Scale
\* |a| * Scale / |b|, truncated.
DivFix(a, b) == (a \div b) * Scale + ((a % b) * Scale) \div b

Neg(a) ==
    CASE a.k = "nan" -> NaN
      [] a.k = "inf" -> Inf(-a.v)
      [] OTHER -> Fin(-a.v)

Add(a, b) ==
    CASE IsNaN(a) \/ IsNaN(b) -> NaN
      [] a.k = "inf" /\ b.k = "inf" -> IF a.v = b.v THEN a ELSE NaN
      [] a.k = "inf" -> a
      [] b.k = "inf" -> b
      [] OTHER -> Fin(a.v + b.v)

Sub(a, b) == Add(a, Neg(b))

Mul(a, b) ==
    CASE IsNaN(a) \/ IsNaN(b) -> NaN
      [] a.k = "inf" \/ b.k = "inf" ->
            IF Sign(a) = 0 \/ Sign(b) = 0 THEN NaN ELSE Inf(Sign(a) * Sign(b))
      [] OTHER -> Fin(Sign(a) * Sign(b) * MulFix(Abs(a.v), Abs(b.v)))

\* No divisor of the scheme is a negative zero, so x / 0 takes the sign of x.
Div(a, b) ==
    CASE IsNaN(a) \/ IsNaN(b) -> NaN
      [] a.k = "inf" /\ b.k = "inf" -> NaN
      [] a.k = "inf" -> Inf(IF Sign(b) < 0 THEN -a.v ELSE a.v)
      [] b.k = "inf" -> Zero
      [] b.v = 0 -> IF a.v = 0 THEN NaN ELSE Inf(Sign(a))
      [] OTHER -> Fin(Sign(a) * Sign(b) * DivFix(Abs(a.v), Abs(b.v)))

\* a < b, a <= b and a == b on doubles: false as soon as one side is NaN.
Rank(a) == IF a.k = "inf" THEN a.v ELSE 0
Lt(a, b) ==
    /\ ~IsNaN(a) /\ ~IsNaN(b)
    /\ \/ Rank(a) < Rank(b)
       \/ Rank(a) = Rank(b) /\ IsFin(a) /\ IsFin(b) /\ a.v < b.v
Le(a, b) ==
    /\ ~IsNaN(a) /\ ~IsNaN(b)
    /\ \/ Rank(a) < Rank(b)
       \/ Rank(a) = Rank(b) /\ (a.k = "inf" \/ b.k = "inf" \/ a.v <= b.v)

\* std::min(a, b): (b < a) ? b : a.
min(a, b) == IF Lt(b, a) THEN b ELSE a

\* The fractional bits of log2 of a mantissa m in [Scale, 2 * Scale), by
\* repeated squaring: bit i is set when the square reaches 2.
RECURSIVE Log2Frac(_, _)
Log2Frac(m, bit) ==
    IF bit = 0 THEN 0
    ELSE LET sq == (m * m) \div Scale
         IN  IF sq >= 2 * Scale
             THEN bit + Log2Frac(sq \div 2, bit \div 2)
             ELSE Log2Frac(sq, bit \div 2)

\* log2 of the positive fixed-point number v: exponent plus fraction.
RECURSIVE Log2Fix(_, _)
Log2Fix(v, e) ==
    IF v >= 2 * Scale THEN Log2Fix(v \div 2, e + 1)
    ELSE IF v < Scale THEN Log2Fix(v * 2, e - 1)
    ELSE e * Scale + Log2Frac(v, Scale \div 2)

log2(a) ==
    CASE IsNaN(a) -> NaN
      [] a.k = "inf" -> IF a.v > 0 THEN PInf ELSE NaN
      [] a.v < 0 -> NaN
      [] a.v = 0 -> NInf
      [] OTHER -> Fin(Log2Fix(a.v, 0))

\* M_PI, from the rational 355/113.
M_PI == Fin((355 * Scale) \div 113)

Two == FromInt(2)

\* ---------------------------------------------------------- the scheme

\* The term statistics the Weight base class hands to init() through its
\* getters, and the inputs the model draws them from.
CollectionSizes == {2}
CollectionFreqs == {0, 1, 2}
AverageLengths == {Fin((3 * Scale) \div 2)}
Wqfs == {2}
Factors == {One}
Stats ==
    [collection_size : CollectionSizes,
     collection_freq : CollectionFreqs,
     average_length : AverageLengths,
     wdf_upper_bound : 0 .. MaxWdf,
     doclength_upper_bound : 0 .. MaxLen,
     wqf : Wqfs]
NoStats ==
    [collection_size |-> 0, collection_freq |-> 0, average_length |-> Zero,
     wdf_upper_bound |-> 0, doclength_upper_bound |-> 0, wqf |-> 0]

\* The statistics of the round-trip runs: one term with and without
\* occurrences, at two collection frequencies.
RoundTripStats ==
    {st \in Stats : /\ st.collection_freq \in {1, 2}
                    /\ st.wdf_upper_bound \in {0, 1}
                    /\ st.doclength_upper_bound = 2}

\* What the three double members of a newly constructed DLHWeight can hold:
\* no code of dlhweight.cc sets them before init().  A run draws the content
\* once (mem), so no property is decided by two instances finding different
\* bytes.
Indeterminate == {Zero, FromInt(3)}
Memory == {[log_constant |-> x, wqf_product_factor |-> x, upper_bound |-> x] :
               x \in Indeterminate}

\* std::string as a sequence of bytes.
Bytes == {0, 1}
Strings == UNION {[1 .. n -> Bytes] : n \in 0 .. MaxStrLen}

VARIABLES
    w,      \* the scheme instance under test
    w2,     \* the instance clone() or unserialise() returned last, or NoObj
    mem,    \* the bytes a new DLHWeight finds in its uninitialised members
    call    \* the last call: operation, receiver, arguments, result
vars == <<w, w2, mem, call>>

NoObj ==
    [made |-> "none", log_constant |-> Zero, wqf_product_factor |-> Zero,
     upper_bound |-> Zero, inited |-> FALSE, stats |-> NoStats, factor |-> Zero]

\* new DLHWeight(): the members keep what the memory held.
DLHWeight(how, m) ==
    [made |-> how, log_constant |-> m.log_constant,
     wqf_product_factor |-> m.wqf_product_factor, upper_bound |-> m.upper_bound,
     inited |-> FALSE, stats |-> NoStats, factor |-> Zero]

\* DLHWeight::clone().
clone(m) == DLHWeight("clone", m)

\* init(): log_constant = get_average_length() * N / F.
init_log_constant(st) ==
    LET N == FromInt(st.collection_size)
        F == FromInt(st.collection_freq)
    IN  Div(Mul(st.average_length, N), F)

\* A slip in init(): the query term frequency left out of the factor.
init_wqf_product_factor_nowqf(st, factor) == factor

\* init(): wqf_product_factor = get_wqf() * factor.
init_wqf_product_factor(st, factor) == Mul(FromInt(st.wqf), factor)

\* init(): the upper bound, from the smaller of the two bounds on the
\* product under the third log, clamped at zero or scaled by the wqf factor.
init_upper_bound(st, log_constant, wqf_product_factor) ==
    LET wdf_upper == FromInt(st.wdf_upper_bound)
        wdf_lower == One
        len_upper == FromInt(st.doclength_upper_bound)
        min_wdf_to_len == Div(wdf_lower, len_upper)
        wdf_var == min(wdf_upper, Div(len_upper, Two))
        max_product_1 == Mul(wdf_var, Sub(One, Div(wdf_var, len_upper)))
        max_product_2 == Mul(wdf_upper, Sub(One, min_wdf_to_len))
        max_product == min(max_product_1, max_product_2)
        upper_bound ==
            Add(Add(Div(Mul(wdf_upper, log2(log_constant)),
                        Add(wdf_upper, Half)),
                    Div(Mul(Sub(len_upper, wdf_lower),
                            log2(Sub(One, min_wdf_to_len))),
                        Add(wdf_lower, Half))),
                Div(Mul(Half, log2(Mul(Mul(Two, M_PI), max_product))),
                    Add(wdf_lower, Half)))
    IN  IF Lt(upper_bound, Zero) THEN Zero
        ELSE Mul(upper_bound, wqf_product_factor)

\* DLHWeight::init(factor), on the statistics st the base class holds.  With a
\* wdf upper bound of 0 it sets upper_bound alone and returns.
init(o, st, factor) ==
    LET o1 == [o EXCEPT !.inited = TRUE, !.stats = st, !.factor = factor]
    IN  IF FromInt(st.wdf_upper_bound) = Zero
        THEN [o1 EXCEPT !.upper_bound = Zero]
        ELSE LET log_constant == init_log_constant(st)
                 wqf_product_factor == init_wqf_product_factor(st, factor)
             IN  [o1 EXCEPT
                    !.log_constant = log_constant,
                    !.wqf_product_factor = wqf_product_factor,
                    !.upper_bound =
                        init_upper_bound(st, log_constant, wqf_product_factor)]

\* DLHWeight::name().
name == "Xapian::DLHWeight"

\* DLHWeight::serialise().
serialise == << >>

\* A slip in unserialise(): the check for extra data left out.
unserialise_unchecked(s, m) ==
    [err |-> "none", obj |-> DLHWeight("unserialise", m)]

\* DLHWeight::unserialise(s): a new instance, or the SerialisationError thrown.
unserialise(s, m) ==
    IF s # << >>
    THEN [err |-> "SerialisationError", obj |-> NoObj]
    ELSE [err |-> "none", obj |-> DLHWeight("unserialise", m)]

\* len - wdf on Xapian::termcount (unsigned) wraps when wdf > len.  The wrapped
\* value only ever multiplies log2(1 - wdf/len), which is NaN there, so the
\* model keeps a modulus that fits its integers instead of 2^32.
TermcountModulus == 2 ^ 8
termcount_sub(len, wdf) == (len - wdf) % TermcountModulus

\* The DLH formula value wt of get_sumpart() for the constant log_constant.
dlh_wt(log_constant, wdf, len) ==
    LET wdf_to_len == Div(FromInt(wdf), FromInt(len))
        one_minus_wdf_to_len == Sub(One, wdf_to_len)
    IN  Add(Add(Mul(FromInt(wdf), log2(Mul(wdf_to_len, log_constant))),
                Mul(FromInt(termcount_sub(len, wdf)),
                    log2(one_minus_wdf_to_len))),
            Mul(Half, log2(Mul(Mul(Mul(Two, M_PI), FromInt(wdf)),
                               one_minus_wdf_to_len))))

\* A slip in get_sumpart(): the early return for wdf == 0 left out.
get_sumpart_noguard(o, wdf, len) ==
    LET wt == dlh_wt(o.log_constant, wdf, len)
    IN  IF Le(wt, Zero) THEN Zero
        ELSE Div(Mul(o.wqf_product_factor, wt), Add(FromInt(wdf), Half))

\* DLHWeight::get_sumpart(wdf, len, uniqterms).
get_sumpart(o, wdf, len) ==
    IF wdf = 0 THEN Zero
    ELSE LET wt == dlh_wt(o.log_constant, wdf, len)
         IN  IF Le(wt, Zero) THEN Zero
             ELSE Div(Mul(o.wqf_product_factor, wt), Add(FromInt(wdf), Half))

\* DLHWeight::get_maxpart().
get_maxpart(o) == o.upper_bound

\* DLHWeight::get_sumextra(len, uniqterms) and DLHWeight::get_maxextra().
get_sumextra(o, len) == Zero
get_maxextra(o) == Zero

\* ------------------------------------------------------------ actions

Call(op, obj, wdf, len, s, ret, text, err) ==
    [op |-> op, obj |-> obj, wdf |-> wdf, len |-> len, s |-> s, ret |-> ret,
     text |-> text, err |-> err]

Obj(i) == IF i = 1 THEN w ELSE w2
Live == IF w2.made = "none" THEN {1} ELSE {1, 2}

Init ==
    /\ mem \in Memory
    /\ w = DLHWeight("ctor", mem)
    /\ w2 = NoObj
    /\ call = Call("ctor", 1, 0, 0, << >>, Zero, "", "none")

\* The matcher initialises w for a term: the base class stores the term's
\* statistics and calls init(factor).
InitFrom(S) ==
    \E st \in S, factor \in Factors :
        /\ w' = init(w, st, factor)
        /\ call' = Call("init", 1, 0, 0, << >>, Zero, "", "none")
        /\ UNCHANGED <<w2, mem>>

DoInit == InitFrom(Stats)

\* A slip in get_sumpart(): the result kept in a member, as a cache would.
DoGetSumpartCaching ==
    \E wdf \in 0 .. MaxWdf, len \in 0 .. MaxLen :
        /\ call' = Call("get_sumpart", 1, wdf, len, << >>,
                        get_sumpart(w, wdf, len), "", "none")
        /\ w' = [w EXCEPT !.upper_bound = get_sumpart(w, wdf, len)]
        /\ UNCHANGED <<w2, mem>>

DoGetSumpart ==
    \E i \in Live, wdf \in 0 .. MaxWdf, len \in 0 .. MaxLen :
        /\ call' = Call("get_sumpart", i, wdf, len, << >>,
                        get_sumpart(Obj(i), wdf, len), "", "none")
        /\ UNCHANGED <<w, w2, mem>>

DoGetMaxpart ==
    \E i \in Live :
        /\ call' = Call("get_maxpart", i, 0, 0, << >>, get_maxpart(Obj(i)), "",
                        "none")
        /\ UNCHANGED <<w, w2, mem>>

DoGetSumextra ==
    \E len \in 0 .. MaxLen :
        /\ call' = Call("get_sumextra", 1, 0, len, << >>, get_sumextra(w, len),
                        "", "none")
        /\ UNCHANGED <<w, w2, mem>>

DoGetMaxextra ==
    /\ call' = Call("get_maxextra", 1, 0, 0, << >>, get_maxextra(w), "", "none")
    /\ UNCHANGED <<w, w2, mem>>

Next ==
    \/ DoInit
    \/ DoGetSumpart
    \/ DoGetMaxpart
    \/ DoGetSumextra
    \/ DoGetMaxextra

\* One scheme instance, initialised any number of times and asked for weights.
Spec == Init /\ [][Next]_vars

\* ---------------------------------------- clone, serialise, unserialise

DoInitTerm == InitFrom(RoundTripStats)

\* The copy is initialised for the same term as w: same statistics and factor.
DoInitCopy ==
    /\ w2.made # "none"
    /\ w.inited
    /\ w2' = init(w2, w.stats, w.factor)
    /\ call' = Call("init", 2, 0, 0, << >>, Zero, "", "none")
    /\ UNCHANGED <<w, mem>>

DoClone ==
    /\ w2' = clone(mem)
    /\ call' = Call("clone", 1, 0, 0, << >>, Zero, "", "none")
    /\ UNCHANGED <<w, mem>>

DoName ==
    \E i \in Live :
        /\ call' = Call("name", i, 0, 0, << >>, Zero, name, "none")
        /\ UNCHANGED <<w, w2, mem>>

DoSerialise ==
    /\ call' = Call("serialise", 1, 0, 0, serialise, Zero, "", "none")
    /\ UNCHANGED <<w, w2, mem>>

\* unserialise(s) on w: the new instance replaces w2; a throw leaves w2 alone.
DoUnserialise ==
    \E s \in Strings :
        LET r == unserialise(s, mem)
        IN  /\ w2' = IF r.err = "none" THEN r.obj ELSE w2
            /\ call' = Call("unserialise", 1, 0, 0, s, Zero, "", r.err)
            /\ UNCHANGED <<w, mem>>

NextRoundTrip ==
    \/ DoInitTerm
    \/ DoInitCopy
    \/ DoClone
    \/ DoGetSumpart
    \/ DoGetMaxpart
    \/ DoGetSumextra
    \/ DoGetMaxextra
    \/ DoName
    \/ DoSerialise
    \/ DoUnserialise

\* The scheme sent to a remote matcher: w is cloned or serialised and
\* unserialised, and both instances are initialised and asked for weights.
SpecRoundTrip == Init /\ [][NextRoundTrip]_vars

\* ------------------------------------------------------------- claims

Wdfs == 0 .. MaxWdf
Lens == 0 .. MaxLen
Members(o) == <<o.log_constant, o.wqf_product_factor, o.upper_bound>>
SumpartOnW == call.op = "get_sumpart" /\ call.obj = 1

\* The posting (wdf, len) is admissible for the statistics st.
Admissible(st, wdf, len) ==
    /\ 1 <= wdf /\ wdf <= st.wdf_upper_bound
    /\ wdf <= len /\ len <= st.doclength_upper_bound

\* C1: for a scheme initialised from term statistics, get_sumpart(wdf, len, _)
\* with 1 <= wdf <= wdf upper bound and wdf <= len <= document-length upper
\* bound returns a value <= get_maxpart().
C1_SumpartWithinMaxpart ==
    (SumpartOnW /\ w.inited /\ Admissible(w.stats, call.wdf, call.len))
        => Le(call.ret, get_maxpart(w))

\* What does hold of the bound: every admissible posting with wdf < len stays
\* within get_maxpart().
SumpartWithinMaxpartBelowLen ==
    (SumpartOnW /\ w.inited /\ Admissible(w.stats, call.wdf, call.len)
        /\ call.wdf < call.len)
        => Le(call.ret, get_maxpart(w))

\* C2: get_sumpart(0, len, _) returns exactly 0.0 for every len, whatever the
\* state of the instance: constructed, cloned, unserialised or initialised.
C2_ZeroWdfGivesZero ==
    (call.op = "get_sumpart" /\ call.wdf = 0) => call.ret = Zero

C2_Witness ==
    /\ call.op = "get_sumpart" /\ call.wdf = 0 /\ call.len = 0
    /\ call.obj = 2 /\ w2.made = "unserialise" /\ ~w2.inited
    /\ w2.log_constant # Zero

\* C3: get_sumpart never returns a negative value, and whenever the formula
\* value wt is not a positive number (wt <= 0, or the NaN of wdf == len) the
\* result is 0.0.
C3_SumpartClampedAtZero ==
    SumpartOnW =>
        /\ ~Lt(call.ret, Zero)
        /\ ~Lt(Zero, dlh_wt(w.log_constant, call.wdf, call.len))
             => call.ret = Zero

\* C4: serialise() returns the empty string; unserialise(s) returns a new
\* DLHWeight exactly when s is empty, and otherwise throws SerialisationError
\* and hands out no instance.
C4_UnserialiseIffEmpty ==
    [][/\ call'.op = "serialise" => call'.s = << >>
       /\ call'.op = "unserialise" =>
            /\ (call'.s = << >>) <=> (call'.err = "none")
            /\ call'.err = "none" => w2' = DLHWeight("unserialise", mem)
            /\ call'.err # "none" =>
                 call'.err = "SerialisationError" /\ w2' = w2]_vars

C4_Witness ==
    /\ call.op = "unserialise" /\ call.s # << >>
    /\ call.err = "SerialisationError" /\ w2.made = "none"

\* C5: unserialise(w.serialise()) succeeds and gives a scheme of the same name
\* which, initialised with the statistics and factor of w, returns the same
\* get_sumpart(wdf, len, _) for all inputs and the same get_maxpart().
C5_RoundTripSameWeights ==
    /\ unserialise(serialise, mem).err = "none"
    /\ (/\ w2.made = "unserialise" /\ w.inited /\ w2.inited
        /\ w2.stats = w.stats /\ w2.factor = w.factor)
        => /\ get_maxpart(w2) = get_maxpart(w)
           /\ \A wdf \in Wdfs, len \in Lens :
                  get_sumpart(w2, wdf, len) = get_sumpart(w, wdf, len)

\* The statistics are degenerate: no occurrence, no length, or no frequency.
Degenerate(st) ==
    \/ st.wdf_upper_bound = 0
    \/ st.doclength_upper_bound = 0
    \/ st.collection_freq = 0

\* C6: after init() on degenerate statistics the scheme contributes nothing:
\* get_maxpart() is 0 and get_sumpart(wdf, len, _) is 0 for every wdf and len.
C6_DegenerateStatsGiveZero ==
    (w.inited /\ Degenerate(w.stats))
        => /\ get_maxpart(w) = Zero
           /\ \A wdf \in Wdfs, len \in Lens : get_sumpart(w, wdf, len) = Zero

\* The closed form of the DLH weight, from the statistics themselves:
\* wt = wdf*log2(wdf/len * avglen*N/F) + (len-wdf)*log2(1-wdf/len)
\*      + 0.5*log2(2*pi*wdf*(1-wdf/len)).
ClosedWt(st, wdf, len) ==
    LET p == Div(FromInt(wdf), FromInt(len))
        c == Div(Mul(st.average_length, FromInt(st.collection_size)),
                 FromInt(st.collection_freq))
    IN  Add(Add(Mul(FromInt(wdf), log2(Mul(p, c))),
                Mul(Sub(FromInt(len), FromInt(wdf)), log2(Sub(One, p)))),
            Mul(Half, log2(Mul(Mul(Mul(Two, M_PI), FromInt(wdf)),
                               Sub(One, p)))))

\* wqf * factor * wt / (wdf + 0.5).
ClosedForm(st, factor, wdf, len) ==
    Div(Mul(Mul(FromInt(st.wqf), factor), ClosedWt(st, wdf, len)),
        Add(FromInt(wdf), Half))

C8_ImmutableAfterInit ==
    [][/\ (w.inited /\ ~(call'.op = "init" /\ call'.obj = 1))
            => Members(w') = Members(w)
       /\ (w2.inited /\ call'.op \notin {"init", "clone", "unserialise"})
            => Members(w2') = Members(w2)]_vars

C8_Witness ==
    /\ SumpartOnW /\ call.wdf = 1 /\ call.len = 2
    /\ w.inited /\ w.stats.wdf_upper_bound # 0 /\ Lt(Zero, call.ret)
    /\ w2.made = "clone"

\* C9: the state after init() depends only on the last init(): get_maxpart()
\* and every get_sumpart(wdf, len, _) agree with those of a new instance
\* given that init() alone.
C9_LastInitDecides ==
    w.inited =>
        LET fresh == init(DLHWeight("ctor", mem), w.stats, w.factor)
        IN  /\ get_maxpart(w) = get_maxpart(fresh)
            /\ \A wdf \in Wdfs, len \in Lens :
                   get_sumpart(w, wdf, len) = get_sumpart(fresh, wdf, len)

\* C10: after any init() with wqf >= 0 and factor >= 0, get_maxpart() >= 0.
C10_MaxpartNotNegative ==
    (w.inited /\ w.stats.wqf >= 0 /\ Le(Zero, w.factor))
        => Le(Zero, get_maxpart(w))

====
